---------------------------- MODULE Spec2Model ----------------------------
(***************************************************************************)
(* Open Prism API (prism.py): a facade over an externally supplied Prism   *)
(* core.  The module's own state is the global CORE; everything else the   *)
(* functions read (the PrismInit module of the host, the Maya / Houdini    *)
(* scene providers, the file system, whatever the core returns) belongs to *)
(* the host and is an input of the call that reads it.                     *)
(*                                                                         *)
(* A Python str is a sequence of one-character strings.  Every public      *)
(* function is an operator computing the call's outcome: what it returns   *)
(* or raises, and the trace of the accesses it made to the core.           *)
(***************************************************************************)
EXTENDS Naturals, Sequences, FiniteSets

VARIABLES
    CORE,       \* the module global CORE: the standalone core reference
    PrismInit,  \* the host module PrismInit: its pcore, or ModuleNotFound
    last,       \* the call the caller made last: operation, inputs, outcome
    hist        \* history: the argument of the most recent set_core call

vars == <<CORE, PrismInit, last, hist>>

\* Longest path enumerated as an input.
MaxPathLen == 2

---------------------------------------------------------------------------
(* Python values *)

None == [t |-> "None"]
Str(s) == [t |-> "str", s |-> s]
Bool(b) == [t |-> "bool", b |-> b]
Core(id) == [t |-> "core", id |-> id]
ModuleNotFound == [t |-> "ModuleNotFoundError"]

\* A str whose characters no function looks at.
Name(n) == [t |-> "name", n |-> n]

Chars == {"/", "\\", "a"}
Paths == UNION {[1..n -> Chars] : n \in 0..MaxPathLen}
Strs == {Str(p) : p \in Paths}

Cores == {Core("A"), Core("B")}
Handles == {None} \cup Cores

\* What bool(v) is in Python: None and "" are false; an object is true.
truthy(v) ==
    CASE v.t = "None" -> FALSE
      [] v.t = "str" -> v.s # <<>>
      [] v.t = "bool" -> v.b
      [] OTHER -> TRUE

\* Mutant of replace: only the first occurrence, as str.replace(old, new, 1).
replace_first(s, old, new) ==
    [i \in 1..Len(s) |->
        IF s[i] = old /\ (\A j \in 1..(i - 1) : s[j] # old) THEN new ELSE s[i]]

\* str.replace(old, new) for one-character old and new.
replace(s, old, new) == [i \in 1..Len(s) |-> IF s[i] = old THEN new ELSE s[i]]

\* Mutant of startswith: `prefix in s`.
startswith_anywhere(s, prefix) ==
    \E k \in 1..(Len(s) + 1) :
        /\ k + Len(prefix) - 1 <= Len(s)
        /\ SubSeq(s, k, k + Len(prefix) - 1) = prefix

\* str.startswith(prefix)
startswith(s, prefix) ==
    /\ Len(prefix) <= Len(s)
    /\ SubSeq(s, 1, Len(prefix)) = prefix

---------------------------------------------------------------------------
(* Outcomes.  calls is the trace of accesses to the core (attribute reads  *)
(* and method calls) and to the product browser, in program order.         *)

Access(obj, method, args) == [obj |-> obj, method |-> method, args |-> args]

Return(value, calls) ==
    [kind |-> "return", value |-> value, exc |-> "", fn |-> "", text |-> "",
     arg |-> None, calls |-> calls]

\* raise exc("(fn) text" + arg)
Raise(exc, fn, text, arg, calls) ==
    [kind |-> "raise", value |-> None, exc |-> exc, fn |-> fn, text |-> text,
     arg |-> arg, calls |-> calls]

OpenPrismAPIError(fn, text, arg, calls) ==
    Raise("OpenPrismAPIError", fn, text, arg, calls)

\* What an attribute access on None raises.
AttributeError(attribute) ==
    Raise("AttributeError", "", "'NoneType' object has no attribute", Name(attribute), <<>>)

CoreNotFound == "Prism core was not found."
PathMissing == "the path do not exist: "

---------------------------------------------------------------------------
(* Core reference *)

get_core == IF PrismInit = ModuleNotFound THEN CORE ELSE PrismInit

\* Mutant of set_core: a registered core is never replaced.
set_core_once(new_core) == IF CORE = None THEN new_core ELSE CORE

\* The value set_core leaves in CORE.
set_core(new_core) == new_core

is_prism == Return(Bool(truthy(get_core)), <<>>)

\* get_maya_plugin / get_houdini_plugin; plugin is what getPlugin returns.
get_plugin(name, plugin) ==
    LET core == get_core IN
    IF core = None THEN Return(None, <<>>)
    ELSE Return(plugin, <<Access(core, "plugins.getPlugin", <<name>>)>>)

get_maya_plugin(plugin) == get_plugin("Maya", plugin)

get_houdini_plugin(plugin) == get_plugin("Houdini", plugin)

is_plugin(r) == Return(Bool(truthy(r.value)), r.calls)

is_maya_plugin(plugin) == is_plugin(get_maya_plugin(plugin))

is_houdini_plugin(plugin) == is_plugin(get_houdini_plugin(plugin))

---------------------------------------------------------------------------
(* Project and scene accessors.  projectName, projectPath and prismRoot    *)
(* are the values of the core's attributes of those names.                 *)

\* Mutant of get_project_name: no check for a missing core.
get_project_name_unguarded(projectName) ==
    LET core == get_core IN
    IF core = None THEN AttributeError("projectName")
    ELSE Return(projectName, <<Access(core, "projectName", <<>>)>>)

get_project_name(projectName) ==
    LET core == get_core IN
    IF core = None THEN Return(Str(<<>>), <<>>)
    ELSE Return(projectName, <<Access(core, "projectName", <<>>)>>)

get_project_path(projectPath) ==
    LET core == get_core IN
    IF core = None THEN Return(Str(<<>>), <<>>)
    ELSE Return(Str(replace(projectPath.s, "\\", "/")),
                <<Access(core, "projectPath", <<>>)>>)

get_prism_folder(prismRoot) ==
    LET core == get_core IN
    IF core = None THEN Return(None, <<>>)
    ELSE Return(Str(replace(prismRoot.s, "\\", "/")),
                <<Access(core, "prismRoot", <<>>)>>)

\* The local scene_file after both imports were tried.  maya is what
\* cmds.file(sceneName=True, q=True) returns and hou what hou.hipFile.path()
\* returns, each ModuleNotFound when the import fails.
scene_file(maya, hou) ==
    LET after_maya == IF maya = ModuleNotFound THEN None ELSE maya
    IN  IF hou = ModuleNotFound THEN after_maya ELSE hou

get_curr_scene_file_path(maya, hou) ==
    LET sf == scene_file(maya, hou) IN
    IF ~truthy(sf) THEN Return(Str(<<>>), <<>>)
    ELSE Return(Str(replace(sf.s, "\\", "/")), <<>>)

is_scene_in_prism(maya, hou, projectPath) ==
    LET curr_scene == get_curr_scene_file_path(maya, hou)
        prism_project == get_project_path(projectPath)
    IN  IF ~truthy(curr_scene.value) \/ ~truthy(prism_project.value)
        THEN Return(Bool(FALSE), prism_project.calls)
        ELSE Return(Bool(startswith(curr_scene.value.s, prism_project.value.s)),
                    prism_project.calls)

---------------------------------------------------------------------------
(* Scene file data.  data is what core.getScenefileData returns: a dict,   *)
(* of which task and department are the entries .get() finds (None when    *)
(* the key is missing).                                                    *)

\* A function object, as in `if not is_scene_in_prism:`.
Function(name) == [t |-> "function", name |-> name]

NotInPrism == "the current scene is not in Prism."
NotInPrismCap == "The current scene is not in Prism."

get_scene_file_data(scene_path, data) ==
    LET core == get_core IN
    IF ~truthy(core)
    THEN OpenPrismAPIError("get_scene_file_data", CoreNotFound, None, <<>>)
    ELSE Return(data, <<Access(core, "getScenefileData", <<scene_path>>)>>)

\* get_task and get_department: lines 246-252 and 268-274, key the entry read.
scene_entry(fn, key, scene_path, maya, hou, data) ==
    IF ~truthy(Function("is_scene_in_prism"))
    THEN OpenPrismAPIError(fn, NotInPrismCap, None, <<>>)
    ELSE LET path == IF ~truthy(scene_path)
                     THEN get_curr_scene_file_path(maya, hou).value
                     ELSE scene_path
             r == get_scene_file_data(path, data)
         IN  IF r.kind = "raise" THEN r
             ELSE Return(IF key = "task" THEN r.value.task ELSE r.value.department,
                         r.calls)

get_task(scene_path, maya, hou, data) ==
    scene_entry("get_task", "task", scene_path, maya, hou, data)

get_department(scene_path, maya, hou, data) ==
    scene_entry("get_department", "department", scene_path, maya, hou, data)

---------------------------------------------------------------------------
(* Export data.  args are the arguments handed on to the core's path       *)
(* generator, data what getScenefileData returns and product what the      *)
(* generator returns: a dict whose "path" entry is product.path.           *)

\* Mutant of export_data: the scene is not checked against the project.
export_data_unchecked(fn, method, args, maya, hou, projectPath, data, product) ==
    LET core == get_core
        scene_path == get_curr_scene_file_path(maya, hou).value
    IN  IF ~truthy(core)
        THEN OpenPrismAPIError(fn, CoreNotFound, None, <<>>)
        ELSE Return(product,
                    <<Access(core, "getScenefileData", <<scene_path>>),
                      Access(core, method, <<data>> \o args)>>)

\* The body shared by get_product_export_data, get_media_product_data and
\* get_playblast_product_data: fn is the function, method the generator.
export_data(fn, method, args, maya, hou, projectPath, data, product) ==
    LET core == get_core
        in_prism == is_scene_in_prism(maya, hou, projectPath)
        scene_path == get_curr_scene_file_path(maya, hou).value
    IN  IF ~truthy(core)
        THEN OpenPrismAPIError(fn, CoreNotFound, None, <<>>)
        ELSE IF ~truthy(in_prism.value)
        THEN OpenPrismAPIError(fn, NotInPrism, None, in_prism.calls)
        ELSE Return(product,
                    in_prism.calls
                    \o <<Access(core, "getScenefileData", <<scene_path>>),
                         Access(core, method, <<data>> \o args)>>)

get_product_export_data(identifier, extension, start_frame, end_frame, comment, location, maya, hou, projectPath, data, product) ==
    export_data("get_product_export_data", "products.generateProductPath",
                <<identifier, extension, start_frame, end_frame, comment, location>>,
                maya, hou, projectPath, data, product)

\* Mutant of get_media_product_data: the messages of get_product_export_data,
\* left as they were when the function was copied.
get_media_product_data_pasted(identifier, extension, comment, location, maya, hou, projectPath, data, product) ==
    export_data("get_product_export_data", "mediaProducts.generateMediaProductPath",
                <<identifier, extension, comment, location>>,
                maya, hou, projectPath, data, product)

get_media_product_data(identifier, extension, comment, location, maya, hou, projectPath, data, product) ==
    export_data("get_media_product_data", "mediaProducts.generateMediaProductPath",
                <<identifier, extension, comment, location>>,
                maya, hou, projectPath, data, product)

get_playblast_product_data(identifier, extension, comment, location, maya, hou, projectPath, data, product) ==
    export_data("get_playblast_product_data", "mediaProducts.generatePlayblastPath",
                <<identifier, extension, comment, location>>,
                maya, hou, projectPath, data, product)

\* The tail of the three *_export_file_path getters: r is the data call.
export_file_path(r) ==
    IF r.kind = "raise" THEN r
    ELSE IF truthy(r.value.path)
    THEN Return(Str(replace(r.value.path.s, "\\", "/")), r.calls)
    ELSE Return(None, r.calls)

get_product_export_file_path(identifier, extension, location, maya, hou, projectPath, data, product) ==
    export_file_path(get_product_export_data(identifier, extension, None, None, None,
                                             location, maya, hou, projectPath,
                                             data, product))

get_media_export_file_path(identifier, extension, location, maya, hou, projectPath, data, product) ==
    export_file_path(get_media_product_data(identifier, extension, None, location,
                                            maya, hou, projectPath, data, product))

get_playblast_export_file_path(identifier, extension, location, maya, hou, projectPath, data, product) ==
    export_file_path(get_playblast_product_data(identifier, extension, None, location,
                                                maya, hou, projectPath, data, product))

---------------------------------------------------------------------------
(* Master versions.  exists is what os.path.exists(path) returns.          *)

set_product_master_version(path, exists) ==
    LET core == get_core IN
    IF ~exists
    THEN OpenPrismAPIError("set_product_master_version", PathMissing, path, <<>>)
    ELSE IF ~truthy(core)
    THEN OpenPrismAPIError("set_product_master_version", CoreNotFound, None, <<>>)
    ELSE Return(None, <<Access(core, "products.updateMasterVersion", <<path>>)>>)

\* Mutant of media_type: the 2D-render flag is looked at first.
media_type_2d_first(is_playblast, is_2d_render) ==
    IF is_2d_render THEN Name("2drenders")
    ELSE IF is_playblast THEN Name("playblasts")
    ELSE None

media_type(is_playblast, is_2d_render) ==
    IF is_playblast THEN Name("playblasts")
    ELSE IF is_2d_render THEN Name("2drenders")
    ELSE None

\* Mutant of set_media_master_version: the path is not looked up.
set_media_master_version_unchecked(path, is_playblast, is_2d_render, exists) ==
    LET core == get_core IN
    IF ~truthy(core)
    THEN OpenPrismAPIError("set_media_master_version", CoreNotFound, None, <<>>)
    ELSE Return(None, <<Access(core, "mediaProducts.updateMasterVersion",
                               <<path, media_type(is_playblast, is_2d_render)>>)>>)

set_media_master_version(path, is_playblast, is_2d_render, exists) ==
    LET core == get_core IN
    IF ~exists
    THEN OpenPrismAPIError("set_media_master_version", PathMissing, path, <<>>)
    ELSE IF ~truthy(core)
    THEN OpenPrismAPIError("set_media_master_version", CoreNotFound, None, <<>>)
    ELSE Return(None, <<Access(core, "mediaProducts.updateMasterVersion",
                               <<path, media_type(is_playblast, is_2d_render)>>)>>)

set_render_master_version(path, exists) ==
    set_media_master_version(path, FALSE, FALSE, exists)

set_playblast_master_version(path, exists) ==
    set_media_master_version(path, TRUE, FALSE, exists)

set_2d_render_master_version(path, exists) ==
    set_media_master_version(path, FALSE, TRUE, exists)

---------------------------------------------------------------------------
(* Locations, product browser, shot range *)

\* Mutant of get_export_locations: no check for a missing core.
get_export_locations_unguarded(locations) ==
    LET core == get_core IN
    IF core = None THEN AttributeError("paths")
    ELSE Return(locations, <<Access(core, "paths.getExportProductBasePaths", <<>>)>>)

\* locations is what core.paths.getExportProductBasePaths() returns.
get_export_locations(locations) ==
    LET core == get_core IN
    IF ~truthy(core)
    THEN OpenPrismAPIError("get_export_locations", CoreNotFound, None, <<>>)
    ELSE Return(locations, <<Access(core, "paths.getExportProductBasePaths", <<>>)>>)

\* locations is what core.paths.getRenderProductBasePaths() returns.
get_render_locations(locations) ==
    LET core == get_core IN
    IF ~truthy(core)
    THEN OpenPrismAPIError("get_render_locations", CoreNotFound, None, <<>>)
    ELSE Return(locations, <<Access(core, "paths.getRenderProductBasePaths", <<>>)>>)

\* A list: import_paths.
List(items) == [t |-> "list", items |-> items]

\* browser is ModuleNotFound when `import ProductBrowser` fails; productPath
\* is the dialog's productPath after exec_().
request_products(browser, productPath) ==
    LET core == get_core
        ts == Name("ProductBrowser")
    IN  IF ~truthy(core)
        THEN OpenPrismAPIError("request_products", CoreNotFound, None, <<>>)
        ELSE IF browser = ModuleNotFound
        THEN Raise("ModuleNotFoundError", "", "No module named 'ProductBrowser'",
                   None, <<>>)
        ELSE Return(IF truthy(productPath) THEN List(<<productPath>>) ELSE List(<<>>),
                    <<Access(ts, "ProductBrowser", <<core>>),
                      Access(core, "parentWindow", <<ts>>),
                      Access(ts, "exec_", <<>>)>>)

\* range is what core.entities.getShotRange returns.
get_shot_range(scene_path, maya, hou, data, range) ==
    LET core == get_core
        path == IF ~truthy(scene_path)
                THEN get_curr_scene_file_path(maya, hou).value
                ELSE scene_path
        r == get_scene_file_data(path, data)
    IN  IF ~truthy(core)
        THEN OpenPrismAPIError("get_shot_range", CoreNotFound, None, <<>>)
        ELSE IF r.kind = "raise" THEN r
        ELSE Return(range,
                    r.calls \o <<Access(core, "entities.getShotRange", <<r.value>>)>>)

---------------------------------------------------------------------------
(* Inputs: what the host and the core may hand to a call. *)

\* (maya, hou): neither importable, one of them, or both (two sample scenes).
BothScenes == {Str(<<>>), Str(<<"\\">>)}
Hosts ==
    {<<ModuleNotFound, ModuleNotFound>>}
    \cup {<<s, ModuleNotFound>> : s \in Strs}
    \cup {<<ModuleNotFound, s>> : s \in Strs}
    \cup (BothScenes \X BothScenes)

\* The hosts of the calls that only pass the current scene on: which provider
\* answered makes no difference once get_curr_scene_file_path has returned.
SceneHosts ==
    {<<ModuleNotFound, ModuleNotFound>>} \cup {<<s, ModuleNotFound>> : s \in Strs}

SceneDatas ==
    {[t |-> "dict", task |-> None, department |-> None],
     [t |-> "dict", task |-> Name("anim"), department |-> Name("lighting")]}
Products == {[t |-> "dict", path |-> v] : v \in {None} \cup Strs}
LocationDicts ==
    {[t |-> "dict", items |-> <<>>]}
    \cup {[t |-> "dict", items |-> <<[name |-> "global", path |-> v]>>] : v \in Strs}
Plugins == {None, Name("plugin")}
ProjectNames == {Str(<<>>), Str(<<"a">>)}
ScenePathArgs == {None, Str(<<>>), Str(<<"\\", "a">>)}
ShotRanges == {None, List(<<Name("start"), Name("end")>>)}
Identifiers == {Name("geo")}
Extensions == {Name(".abc")}
LocationArgs == {Name("global")}
Browsers == {ModuleNotFound, Name("ProductBrowser")}

\* A value the call reads only when cond holds: None stands for "not read".
ReadIf(cond, S) == IF cond THEN S ELSE {None}

\* An attribute or a return value of the resolved core.
OfCore(S) == ReadIf(get_core # None, S)

\* os.path.exists(path): never true of the empty path.
Exists(path) == IF path.s = <<>> THEN {FALSE} ELSE BOOLEAN

---------------------------------------------------------------------------
(* The caller: single-threaded, it makes one call at a time, and the call  *)
(* runs to completion.  last holds the call until the caller goes on.      *)

Idle ==
    [op |-> "idle", in |-> None,
     out |-> [kind |-> "none", value |-> None, exc |-> "", fn |-> "", text |-> "",
              arg |-> None, calls |-> <<>>]]

Call(op, in, out) ==
    /\ last' = [op |-> op, in |-> in, out |-> out]
    /\ UNCHANGED <<CORE, PrismInit, hist>>

Init ==
    /\ CORE = None
    /\ PrismInit \in {ModuleNotFound} \cup Handles
    /\ last = Idle
    /\ hist = None

GetCore == last = Idle /\ Call("get_core", [x |-> None], Return(get_core, <<>>))

SetCore ==
    last = Idle /\
    \E new_core \in Handles :
        /\ CORE' = set_core(new_core)
        /\ hist' = new_core
        /\ last' = [op |-> "set_core", in |-> [new_core |-> new_core],
                    out |-> Return(None, <<>>)]
        /\ UNCHANGED PrismInit

IsPrism == last = Idle /\ Call("is_prism", [x |-> None], is_prism)

GetMayaPlugin ==
    last = Idle /\
    \E plugin \in OfCore(Plugins) :
        Call("get_maya_plugin", [plugin |-> plugin], get_maya_plugin(plugin))

IsMayaPlugin ==
    last = Idle /\
    \E plugin \in OfCore(Plugins) :
        Call("is_maya_plugin", [plugin |-> plugin], is_maya_plugin(plugin))

GetHoudiniPlugin ==
    last = Idle /\
    \E plugin \in OfCore(Plugins) :
        Call("get_houdini_plugin", [plugin |-> plugin], get_houdini_plugin(plugin))

IsHoudiniPlugin ==
    last = Idle /\
    \E plugin \in OfCore(Plugins) :
        Call("is_houdini_plugin", [plugin |-> plugin], is_houdini_plugin(plugin))

GetProjectName ==
    last = Idle /\
    \E projectName \in OfCore(ProjectNames) :
        Call("get_project_name", [projectName |-> projectName],
             get_project_name(projectName))

GetProjectPath ==
    last = Idle /\
    \E projectPath \in OfCore(Strs) :
        Call("get_project_path", [projectPath |-> projectPath],
             get_project_path(projectPath))

GetPrismFolder ==
    last = Idle /\
    \E prismRoot \in OfCore(Strs) :
        Call("get_prism_folder", [prismRoot |-> prismRoot],
             get_prism_folder(prismRoot))

GetCurrSceneFilePath ==
    last = Idle /\
    \E h \in Hosts :
        Call("get_curr_scene_file_path", [scene |-> scene_file(h[1], h[2])],
             get_curr_scene_file_path(h[1], h[2]))

IsSceneInPrism ==
    last = Idle /\
    \E h \in Hosts, projectPath \in OfCore(Strs) :
        Call("is_scene_in_prism",
             [scene |-> scene_file(h[1], h[2]), projectPath |-> projectPath],
             is_scene_in_prism(h[1], h[2], projectPath))

GetSceneFileData ==
    last = Idle /\
    \E scene_path \in ScenePathArgs, data \in OfCore(SceneDatas) :
        Call("get_scene_file_data", [scene_path |-> scene_path, data |-> data],
             get_scene_file_data(scene_path, data))

\* The inputs of a call that falls back on the current scene: curr_scene is
\* what get_curr_scene_file_path() returns in this host, prism_project what
\* get_project_path() returns.
SceneIn(scene_path, h, projectPath, data) ==
    [scene_path |-> scene_path,
     curr_scene |-> get_curr_scene_file_path(h[1], h[2]).value,
     prism_project |-> get_project_path(projectPath).value,
     data |-> data]

GetTask ==
    last = Idle /\
    \E scene_path \in ScenePathArgs, h \in SceneHosts, projectPath \in OfCore(Strs),
       data \in OfCore(SceneDatas) :
        Call("get_task", SceneIn(scene_path, h, projectPath, data),
             get_task(scene_path, h[1], h[2], data))

GetDepartment ==
    last = Idle /\
    \E scene_path \in ScenePathArgs, h \in SceneHosts, projectPath \in OfCore(Strs),
       data \in OfCore(SceneDatas) :
        Call("get_department", SceneIn(scene_path, h, projectPath, data),
             get_department(scene_path, h[1], h[2], data))

GetShotRange ==
    last = Idle /\
    \E scene_path \in ScenePathArgs, h \in SceneHosts,
       data \in OfCore(SceneDatas), range \in OfCore(ShotRanges) :
        Call("get_shot_range",
             [scene_path |-> scene_path,
              curr_scene |-> get_curr_scene_file_path(h[1], h[2]).value,
              data |-> data, range |-> range],
             get_shot_range(scene_path, h[1], h[2], data, range))

\* The inputs of an export call.  data and product are read only once the
\* call has found a core and the scene inside the project.
ExportIn(location, h, projectPath, data, product) ==
    [location |-> location,
     curr_scene |-> get_curr_scene_file_path(h[1], h[2]).value,
     prism_project |-> get_project_path(projectPath).value,
     data |-> data, product |-> product]

InPrism(h, projectPath) ==
    get_core # None /\ truthy(is_scene_in_prism(h[1], h[2], projectPath).value)

GetProductExportData ==
    last = Idle /\
    \E identifier \in Identifiers, extension \in Extensions, location \in LocationArgs,
       h \in SceneHosts, projectPath \in OfCore(Strs) :
        \E data \in ReadIf(InPrism(h, projectPath), SceneDatas),
           product \in ReadIf(InPrism(h, projectPath), Products) :
            Call("get_product_export_data",
                 ExportIn(location, h, projectPath, data, product),
                 get_product_export_data(identifier, extension, None, None, None,
                                         location, h[1], h[2], projectPath,
                                         data, product))

GetProductExportFilePath ==
    last = Idle /\
    \E identifier \in Identifiers, extension \in Extensions, location \in LocationArgs,
       h \in SceneHosts, projectPath \in OfCore(Strs) :
        \E data \in ReadIf(InPrism(h, projectPath), SceneDatas),
           product \in ReadIf(InPrism(h, projectPath), Products) :
            Call("get_product_export_file_path",
                 ExportIn(location, h, projectPath, data, product),
                 get_product_export_file_path(identifier, extension, location,
                                              h[1], h[2], projectPath, data, product))

GetMediaProductData ==
    last = Idle /\
    \E identifier \in Identifiers, extension \in Extensions, location \in LocationArgs,
       h \in SceneHosts, projectPath \in OfCore(Strs) :
        \E data \in ReadIf(InPrism(h, projectPath), SceneDatas),
           product \in ReadIf(InPrism(h, projectPath), Products) :
            Call("get_media_product_data",
                 ExportIn(location, h, projectPath, data, product),
                 get_media_product_data(identifier, extension, None, location,
                                        h[1], h[2], projectPath, data, product))

GetMediaExportFilePath ==
    last = Idle /\
    \E identifier \in Identifiers, extension \in Extensions, location \in LocationArgs,
       h \in SceneHosts, projectPath \in OfCore(Strs) :
        \E data \in ReadIf(InPrism(h, projectPath), SceneDatas),
           product \in ReadIf(InPrism(h, projectPath), Products) :
            Call("get_media_export_file_path",
                 ExportIn(location, h, projectPath, data, product),
                 get_media_export_file_path(identifier, extension, location,
                                            h[1], h[2], projectPath, data, product))

GetPlayblastProductData ==
    last = Idle /\
    \E identifier \in Identifiers, extension \in Extensions, location \in LocationArgs,
       h \in SceneHosts, projectPath \in OfCore(Strs) :
        \E data \in ReadIf(InPrism(h, projectPath), SceneDatas),
           product \in ReadIf(InPrism(h, projectPath), Products) :
            Call("get_playblast_product_data",
                 ExportIn(location, h, projectPath, data, product),
                 get_playblast_product_data(identifier, extension, None, location,
                                            h[1], h[2], projectPath, data, product))

GetPlayblastExportFilePath ==
    last = Idle /\
    \E identifier \in Identifiers, extension \in Extensions, location \in LocationArgs,
       h \in SceneHosts, projectPath \in OfCore(Strs) :
        \E data \in ReadIf(InPrism(h, projectPath), SceneDatas),
           product \in ReadIf(InPrism(h, projectPath), Products) :
            Call("get_playblast_export_file_path",
                 ExportIn(location, h, projectPath, data, product),
                 get_playblast_export_file_path(identifier, extension, location,
                                                h[1], h[2], projectPath, data, product))

\* The inputs of a master-version call.
MasterIn(path, is_playblast, is_2d_render, exists) ==
    [path |-> path, is_playblast |-> is_playblast, is_2d_render |-> is_2d_render,
     exists |-> exists]

SetProductMasterVersion ==
    last = Idle /\
    \E path \in Strs : \E exists \in Exists(path) :
        Call("set_product_master_version", MasterIn(path, FALSE, FALSE, exists),
             set_product_master_version(path, exists))

SetMediaMasterVersion ==
    last = Idle /\
    \E path \in Strs, is_playblast \in BOOLEAN, is_2d_render \in BOOLEAN :
        \E exists \in Exists(path) :
            Call("set_media_master_version",
                 MasterIn(path, is_playblast, is_2d_render, exists),
                 set_media_master_version(path, is_playblast, is_2d_render, exists))

SetRenderMasterVersion ==
    last = Idle /\
    \E path \in Strs : \E exists \in Exists(path) :
        Call("set_render_master_version", MasterIn(path, FALSE, FALSE, exists),
             set_render_master_version(path, exists))

SetPlayblastMasterVersion ==
    last = Idle /\
    \E path \in Strs : \E exists \in Exists(path) :
        Call("set_playblast_master_version", MasterIn(path, TRUE, FALSE, exists),
             set_playblast_master_version(path, exists))

Set2dRenderMasterVersion ==
    last = Idle /\
    \E path \in Strs : \E exists \in Exists(path) :
        Call("set_2d_render_master_version", MasterIn(path, FALSE, TRUE, exists),
             set_2d_render_master_version(path, exists))

GetExportLocations ==
    last = Idle /\
    \E locations \in OfCore(LocationDicts) :
        Call("get_export_locations", [locations |-> locations],
             get_export_locations(locations))

GetRenderLocations ==
    last = Idle /\
    \E locations \in OfCore(LocationDicts) :
        Call("get_render_locations", [locations |-> locations],
             get_render_locations(locations))

RequestProducts ==
    last = Idle /\
    \E browser \in OfCore(Browsers) :
        \E productPath \in ReadIf(browser = Name("ProductBrowser"), {None} \cup Strs) :
            Call("request_products", [browser |-> browser, productPath |-> productPath],
                 request_products(browser, productPath))

\* The caller takes the outcome and goes on to its next call.
Resume ==
    /\ last # Idle
    /\ last' = Idle
    /\ UNCHANGED <<CORE, PrismInit, hist>>

Next ==
    \/ GetCore \/ SetCore \/ IsPrism
    \/ GetMayaPlugin \/ IsMayaPlugin \/ GetHoudiniPlugin \/ IsHoudiniPlugin
    \/ GetProjectName \/ GetProjectPath \/ GetPrismFolder
    \/ GetCurrSceneFilePath \/ IsSceneInPrism
    \/ SetProductMasterVersion \/ SetMediaMasterVersion
    \/ SetRenderMasterVersion \/ SetPlayblastMasterVersion
    \/ Set2dRenderMasterVersion
    \/ GetProductExportData \/ GetProductExportFilePath
    \/ GetMediaProductData \/ GetMediaExportFilePath
    \/ GetPlayblastProductData \/ GetPlayblastExportFilePath
    \/ GetExportLocations \/ GetRenderLocations \/ RequestProducts
    \/ GetSceneFileData \/ GetTask \/ GetDepartment \/ GetShotRange
    \/ Resume

Spec == Init /\ [][Next]_vars

---------------------------------------------------------------------------
(* Vocabulary of the properties, stated on the inputs and the outcome of   *)
(* the call and not through the operators above.                           *)

Out == last.out
In == last.in
Returned == Out.kind = "return"
RaisedApiError == Out.kind = "raise" /\ Out.exc = "OpenPrismAPIError"
NoCore == get_core = None
DiscoveryUnavailable == PrismInit = ModuleNotFound

\* A character with the backslash read as a forward slash.
Slash(c) == IF c = "\\" THEN "/" ELSE c

\* s with every backslash read as a forward slash is t.
Normalized(s, t) ==
    /\ Len(t) = Len(s)
    /\ \A i \in 1..Len(s) : t[i] = Slash(s[i])

NoBackslash(s) == \A i \in 1..Len(s) : s[i] # "\\"

HasBackslash(s) == \E i \in 1..Len(s) : s[i] = "\\"

\* p is a prefix of s once both are read with forward slashes.
PrefixOf(p, s) ==
    /\ Len(p) <= Len(s)
    /\ \A i \in 1..Len(p) : Slash(p[i]) = Slash(s[i])

\* The methods of the core a call used.
Methods == {Out.calls[i].method : i \in 1..Len(Out.calls)}

Generators ==
    {"products.generateProductPath", "mediaProducts.generateMediaProductPath",
     "mediaProducts.generatePlayblastPath"}

ScalarOps == {"get_project_name", "get_project_path", "get_prism_folder"}
ExportDataOps ==
    {"get_product_export_data", "get_media_product_data", "get_playblast_product_data"}
ExportPathOps ==
    {"get_product_export_file_path", "get_media_export_file_path",
     "get_playblast_export_file_path"}
ExportOps == ExportDataOps \cup ExportPathOps
MediaOps ==
    {"set_media_master_version", "set_render_master_version",
     "set_playblast_master_version", "set_2d_render_master_version"}
MasterOps == {"set_product_master_version"} \cup MediaOps
LocationOps == {"get_export_locations", "get_render_locations"}
SceneEntryOps == {"get_task", "get_department"}

---------------------------------------------------------------------------
\* C1: with host discovery unavailable and no core registered, get_project_name
\* and get_project_path return "" and get_prism_folder returns None; none of
\* them raises, and none touches a core.
C1_ScalarsTolerateMissingCore ==
    (last.op \in ScalarOps /\ DiscoveryUnavailable /\ CORE = None) =>
        /\ Returned
        /\ Out.value = IF last.op = "get_prism_folder" THEN None ELSE Str(<<>>)
        /\ Out.calls = <<>>

C1_Witness ==
    /\ last.op = "get_prism_folder"
    /\ DiscoveryUnavailable /\ CORE = None
    /\ Out.value = None

\* C2: with host discovery unavailable, get_core returns the argument of the
\* most recent set_core call, whatever it was, and None if there was none.
C2_GetCoreReturnsLastRegistered ==
    (last.op = "get_core" /\ DiscoveryUnavailable) =>
        Returned /\ Out.value = hist

C2_Witness ==
    /\ last.op = "get_core" /\ DiscoveryUnavailable
    /\ hist = Core("B") /\ Out.value = Core("B")

\* C4: is_scene_in_prism never raises, and returns True exactly when a core is
\* resolved, the host reports a non-empty scene path, the project path is not
\* empty, and the project path is a prefix of the scene path, both read with
\* forward slashes.
C4_SceneInPrismIsPrefixTest ==
    last.op = "is_scene_in_prism" =>
        /\ Returned
        /\ Out.value = Bool(/\ ~NoCore
                            /\ In.scene # None
                            /\ In.scene.s # <<>>
                            /\ In.projectPath.s # <<>>
                            /\ PrefixOf(In.projectPath.s, In.scene.s))

C4_Witness ==
    /\ last.op = "is_scene_in_prism"
    /\ Out.value = Bool(TRUE)
    /\ HasBackslash(In.projectPath.s)
    /\ Len(In.projectPath.s) < Len(In.scene.s)

\* C5: a master-version call on a path that does not exist raises
\* OpenPrismAPIError for the missing path and touches no core, with or
\* without a core.
C5_MissingPathRaisesBeforeCore ==
    (last.op \in MasterOps /\ ~In.exists) =>
        /\ RaisedApiError
        /\ Out.text = PathMissing /\ Out.arg = In.path
        /\ Out.calls = <<>>

C5_Witness ==
    /\ last.op = "set_playblast_master_version"
    /\ ~In.exists /\ ~NoCore
    /\ RaisedApiError

\* The paths a returned value holds: of a str the str itself, of a location
\* dict its values, of a list its items.
PathsOf(v) ==
    CASE v.t = "str" -> {v.s}
      [] v.t = "dict" -> {v.items[i].path.s : i \in 1..Len(v.items)}
      [] v.t = "list" -> {v.items[i].s : i \in 1..Len(v.items)}
      [] OTHER -> {}

NormalizingOps ==
    {"get_project_path", "get_prism_folder", "get_curr_scene_file_path"}
    \cup ExportPathOps

\* The path the core or the host handed to a call of a NormalizingOps function.
RawPath ==
    CASE last.op = "get_project_path" -> In.projectPath
      [] last.op = "get_prism_folder" -> In.prismRoot
      [] last.op = "get_curr_scene_file_path" -> In.scene
      [] OTHER -> In.product.path

\* C3 as claimed: no path-returning function, get_export_locations,
\* get_render_locations and request_products among them, returns a path that
\* holds a backslash.
C3_Original_NoBackslashAnywhere ==
    (last.op \in NormalizingOps \cup LocationOps \cup {"request_products"} /\ Returned) =>
        \A path \in PathsOf(Out.value) : NoBackslash(path)

\* C3 amended: get_project_path, get_prism_folder, get_curr_scene_file_path and
\* the three *_export_file_path getters return the path they were handed with
\* every backslash replaced by a forward slash, so with no backslash left;
\* get_export_locations, get_render_locations and request_products return the
\* paths of the core and of the dialog as they are.
C3_StrGettersNormalize ==
    /\ (last.op \in NormalizingOps /\ Returned /\ truthy(RawPath)) =>
            /\ Out.value.t = "str"
            /\ Normalized(RawPath.s, Out.value.s)
            /\ NoBackslash(Out.value.s)
    /\ (last.op \in LocationOps /\ Returned) => Out.value = In.locations
    /\ (last.op = "request_products" /\ Returned) =>
            Out.value.items \in {<<>>, <<In.productPath>>}

C3_Witness ==
    /\ last.op = "get_product_export_file_path"
    /\ Returned /\ Out.value # None
    /\ HasBackslash(In.product.path.s)
    /\ NoBackslash(Out.value.s)

\* The media type a master-version call asks for: the playblast flag first.
ExpectedMediaType ==
    CASE In.is_playblast -> Name("playblasts")
      [] ~In.is_playblast /\ In.is_2d_render -> Name("2drenders")
      [] OTHER -> None

\* The one update a media master-version call makes, for a media type.
OneMediaUpdate(type) ==
    Out.calls = <<Access(get_core, "mediaProducts.updateMasterVersion", <<In.path, type>>)>>

\* C6 as claimed: on an existing path with a core, one update is made, with
\* "playblasts" when the playblast flag is set, "2drenders" when the 2D-render
\* flag is set and None when neither is, for every combination of the flags.
C6_Original_EachFlagDecides ==
    (last.op \in MediaOps /\ In.exists /\ ~NoCore) =>
        /\ Returned
        /\ \E type \in {None, Name("playblasts"), Name("2drenders")} :
              /\ OneMediaUpdate(type)
              /\ In.is_playblast => type = Name("playblasts")
              /\ In.is_2d_render => type = Name("2drenders")
              /\ (~In.is_playblast /\ ~In.is_2d_render) => type = None

\* C6 amended: on an existing path with a core, set_media_master_version and
\* its wrappers make exactly one update, for that path, with "playblasts" when
\* the playblast flag is set (whatever the 2D-render flag), "2drenders" when
\* only the 2D-render flag is set, and None when neither is.
C6_PlayblastFlagFirst ==
    (last.op \in MediaOps /\ In.exists /\ ~NoCore) =>
        Returned /\ OneMediaUpdate(ExpectedMediaType)

C6_Witness ==
    /\ last.op = "set_media_master_version"
    /\ In.exists /\ ~NoCore
    /\ In.is_playblast /\ In.is_2d_render
    /\ OneMediaUpdate(Name("playblasts"))

\* The current scene lies in the project: both paths known, the project's a
\* prefix of the scene's.
SceneInProject ==
    /\ In.curr_scene.s # <<>>
    /\ In.prism_project.s # <<>>
    /\ PrefixOf(In.prism_project.s, In.curr_scene.s)

\* C7: with a core, an export call made while the current scene is outside the
\* project raises OpenPrismAPIError for the scene, and asks the core neither
\* for the scene file data nor for a path.
C7_OutsideProjectRaises ==
    (last.op \in ExportOps /\ ~NoCore /\ ~SceneInProject) =>
        /\ RaisedApiError
        /\ Out.text = NotInPrism
        /\ Methods \cap ({"getScenefileData"} \cup Generators) = {}

C7_Witness ==
    /\ last.op = "get_product_export_file_path"
    /\ ~NoCore
    /\ In.curr_scene.s # <<>> /\ In.prism_project.s # <<>>
    /\ ~PrefixOf(In.prism_project.s, In.curr_scene.s)
    /\ RaisedApiError

\* The functions that cannot do without a core.
NeedCoreOps ==
    {"get_scene_file_data", "get_shot_range", "request_products"}
    \cup SceneEntryOps \cup ExportOps \cup MasterOps \cup LocationOps

\* C8: a function that cannot do without a core (a master-version call being
\* one on an existing path) raises OpenPrismAPIError when no core is resolved,
\* touches no core and no dialog, and leaves CORE as it was registered.
C8_NoCoreRaises ==
    /\ (last.op \in NeedCoreOps /\ NoCore /\ (last.op \in MasterOps => In.exists)) =>
            /\ RaisedApiError
            /\ Out.text = CoreNotFound
            /\ Out.calls = <<>>
    /\ CORE = hist

C8_Witness ==
    /\ last.op = "request_products"
    /\ NoCore /\ CORE = Core("A")
    /\ RaisedApiError

\* C9 as claimed: the message of every OpenPrismAPIError names the function
\* the caller invoked.
C9_Original_MessageNamesInvokedOp ==
    RaisedApiError => Out.fn = last.op

\* The function whose check raises, for each function the caller can invoke.
CheckedIn(op) ==
    CASE op \in SceneEntryOps -> "get_scene_file_data"
      [] op = "get_product_export_file_path" -> "get_product_export_data"
      [] op = "get_media_export_file_path" -> "get_media_product_data"
      [] op = "get_playblast_export_file_path" -> "get_playblast_product_data"
      [] op \in MediaOps -> "set_media_master_version"
      [] OTHER -> op

\* A call fails for a missing core or a missing precondition.
MissingCoreOrPrecondition ==
    \/ last.op \in NeedCoreOps /\ NoCore
    \/ last.op \in MasterOps /\ ~In.exists
    \/ last.op \in ExportOps /\ ~SceneInProject

\* C9 amended: a call that fails for a missing core or a missing precondition
\* raises OpenPrismAPIError, and the message names the function that made the
\* failing check: the function invoked, or the one it hands the work to
\* (get_scene_file_data for get_task and get_department, the *_data function
\* for each *_export_file_path getter, set_media_master_version for its three
\* wrappers).
C9_MessageNamesCheckingFunction ==
    /\ MissingCoreOrPrecondition => RaisedApiError
    /\ RaisedApiError =>
            /\ Out.fn = CheckedIn(last.op)
            /\ Out.text \in {CoreNotFound, PathMissing, NotInPrism}
            /\ MissingCoreOrPrecondition

C9_Witness ==
    /\ last.op = "set_render_master_version"
    /\ ~In.exists
    /\ RaisedApiError
    /\ Out.fn = "set_media_master_version"

\* C10: get_task and get_department, called while the current scene is
\* outside the project, raise OpenPrismAPIError (saying that the current scene
\* is not in Prism) and do not ask the core for the scene file data.  The
\* wording of the message is left out: a call that finds no core does raise
\* OpenPrismAPIError, and what refutes the claim is a call that does not raise.
C10_SceneEntryChecksProject ==
    (last.op \in SceneEntryOps /\ ~(~NoCore /\ SceneInProject)) =>
        /\ RaisedApiError
        /\ "getScenefileData" \notin Methods

=============================================================================
